---------------------------- MODULE Spec2Model ----------------------------
(***************************************************************************)
(* Model of examples/detectnet-pipeline/detectnet-pipeline.cpp: the main   *)
(* thread of main() interleaved with the asynchronous SIGINT handler.      *)
(*                                                                         *)
(* `trace' is the program's observable behaviour in program order: every   *)
(* call on a collaborator (gstPipeline, detectNet, glDisplay) with its     *)
(* result, and every line written to stdout.  An event is a pair           *)
(* <<name, value>>, value being the call's result (1/0 for a boolean or a  *)
(* pointer, the count for Detect, the index n for a detection line).       *)
(***************************************************************************)
EXTENDS Integers, Sequences, FiniteSets, TLC

VARIABLES pc, signal_recieved, handler, pipeline, net, display, elided,
          imgRGBA, numDetections, sigints, trace

vars == <<pc, signal_recieved, handler, pipeline, net, display, elided,
          imgRGBA, numDetections, sigints, trace>>

\* ---------------------------------------------------------------- bounds
\* loop iterations started in one run
MaxIter == 2
\* the positive count Detect returns when it finds objects
MaxDet == 3
\* SIGINTs delivered in one run
MaxSig == 1

\* ------------------------------------------------------------- constants
SIGINT == "SIGINT"

\* ----------------------------------------------------------------- events
Ev(name, v) == <<name, v>>

Emit(e) == trace' = Append(trace, e)

EmitAll(es) == trace' = trace \o es

B(b) == IF b THEN 1 ELSE 0

Names(S) == { i \in 1..Len(trace) : trace[i][1] \in S }

NumCaptures == Cardinality(Names({"CaptureRGBA"}))

\* --------------------------------------------------------------- initial
Init ==
    /\ pc = "parse"
    /\ signal_recieved = FALSE
    /\ handler = "default"
    /\ pipeline = "unset"
    /\ net = "unset"
    /\ display = "unset"
    /\ elided = FALSE
    /\ imgRGBA = "NULL"
    /\ numDetections = 0
    /\ sigints = 0
    /\ trace = << >>

\* -------------------------------------------------------- signal handler
\* sig_handler(signo), run to completion on the interrupted main thread
sig_handler(signo) ==
    IF signo = SIGINT
    THEN /\ Emit(Ev("print:received SIGINT", 0))
         /\ signal_recieved' = TRUE
    ELSE UNCHANGED <<trace, signal_recieved>>

Running == pc \notin {"exit", "done", "crashed", "killed"}

\* delivery of SIGINT while the handler is installed
Interrupt ==
    /\ Running
    /\ handler = "sig_handler"
    /\ sigints < MaxSig
    /\ sigints' = sigints + 1
    /\ sig_handler(SIGINT)
    /\ UNCHANGED <<pc, handler, pipeline, net, display, elided, imgRGBA,
                   numDetections>>

\* delivery of SIGINT when signal() returned SIG_ERR: the default action
Kill ==
    /\ Running
    /\ handler = "default"
    /\ sigints < MaxSig
    /\ sigints' = sigints + 1
    /\ pc' = "killed"
    /\ UNCHANGED <<signal_recieved, handler, pipeline, net, display, elided,
                   imgRGBA, numDetections, trace>>


\* ------------------------------------------------------------- main(): startup
\* lines 70-73: commandLine cmdLine; --help prints the usage and returns
ParseCommandLine ==
    /\ pc = "parse"
    /\ \E help \in BOOLEAN :
         IF help
         THEN /\ Emit(Ev("print:usage", 0))
              /\ pc' = "exit"
         ELSE /\ pc' = "signal"
              /\ UNCHANGED trace
    /\ UNCHANGED <<signal_recieved, handler, pipeline, net, display, elided,
                   imgRGBA, numDetections, sigints>>

\* lines 79-80: signal(SIGINT, sig_handler); SIG_ERR is reported, not fatal
AttachSignalHandler ==
    /\ pc = "signal"
    /\ \E ok \in BOOLEAN :
         IF ok
         THEN /\ handler' = "sig_handler"
              /\ UNCHANGED trace
         ELSE /\ Emit(Ev("print:can't catch SIGINT", 0))
              /\ UNCHANGED handler
    /\ pc' = "create_pipeline"
    /\ UNCHANGED <<signal_recieved, pipeline, net, display, elided, imgRGBA,
                   numDetections, sigints>>

AfterCreatePipelineDisplayFirst(ok) == IF ok THEN "create_display" ELSE "exit"

\* where main() goes after gstPipeline::Create (lines 91-95)
AfterCreatePipeline(ok) == IF ok THEN "create_net" ELSE "exit"

\* lines 86-100
CreatePipeline ==
    /\ pc = "create_pipeline"
    /\ \E ok \in BOOLEAN :
         /\ pipeline' = IF ok THEN "created" ELSE "null"
         /\ IF ok
            THEN EmitAll(<<Ev("gstPipeline::Create", 1),
                           Ev("print:successfully initialized pipeline device", 0),
                           Ev("pipeline->Get*", 0)>>)
            ELSE EmitAll(<<Ev("gstPipeline::Create", 0),
                           Ev("print:failed to initialize pipeline device", 0)>>)
         /\ pc' = AfterCreatePipeline(ok)
    /\ UNCHANGED <<signal_recieved, handler, net, display, elided, imgRGBA,
                   numDetections, sigints>>

\* where main() goes after detectNet::Create (lines 108-112)
AfterCreateNet(ok) == IF ok THEN "create_display" ELSE "exit"

\* lines 106-115
CreateNet ==
    /\ pc = "create_net"
    /\ \E ok \in BOOLEAN :
         /\ net' = IF ok THEN "created" ELSE "null"
         /\ IF ok
            THEN Emit(Ev("detectNet::Create", 1))
            ELSE EmitAll(<<Ev("detectNet::Create", 0),
                           Ev("print:failed to load detectNet model", 0)>>)
         /\ pc' = AfterCreateNet(ok)
    /\ UNCHANGED <<signal_recieved, handler, pipeline, display, elided,
                   imgRGBA, numDetections, sigints>>

\* lines 121-124: a null display is reported and main() goes on
CreateDisplay ==
    /\ pc = "create_display"
    /\ \E ok \in BOOLEAN :
         /\ display' = IF ok THEN "created" ELSE "null"
         /\ IF ok
            THEN Emit(Ev("glDisplay::Create", 1))
            ELSE EmitAll(<<Ev("glDisplay::Create", 0),
                           Ev("print:failed to create openGL display", 0)>>)
    /\ pc' = "set_viewport"
    /\ UNCHANGED <<signal_recieved, handler, pipeline, net, elided, imgRGBA,
                   numDetections, sigints>>

\* line 127: display->SetViewport(...), not guarded by a null check.  On a
\* null display the call is undefined: the process faults, or the call
\* returns; and the build may have kept or dropped the later tests of
\* display against NULL (lines 171, 197), the pointer having been used.
SetViewport ==
    /\ pc = "set_viewport"
    /\ IF display = "created"
       THEN /\ EmitAll(<<Ev("pipeline->Get*", 0), Ev("display->SetViewport", 1)>>)
            /\ pc' = "open"
            /\ UNCHANGED elided
       ELSE /\ EmitAll(<<Ev("pipeline->Get*", 0), Ev("NULL->SetViewport", 0)>>)
            /\ \E outcome \in {"fault", "return", "return_elided"} :
                 /\ pc' = IF outcome = "fault" THEN "crashed" ELSE "open"
                 /\ elided' = (outcome = "return_elided")
    /\ UNCHANGED <<signal_recieved, handler, pipeline, net, display, imgRGBA,
                   numDetections, sigints>>

AfterOpenIgnoringFailure(ok) == "while"

\* where main() goes after pipeline->Open (lines 132-136)
AfterOpen(ok) == IF ok THEN "while" ELSE "exit"

\* lines 132-144
OpenPipeline ==
    /\ pc = "open"
    /\ \E ok \in BOOLEAN :
         /\ pipeline' = IF ok THEN "open" ELSE pipeline
         /\ EmitAll(<<Ev("pipeline->Open", B(ok)),
                      IF ok THEN Ev("print:pipeline open for streaming", 0)
                            ELSE Ev("print:failed to open pipeline for streaming", 0)>>)
         /\ pc' = AfterOpen(ok)
    /\ UNCHANGED <<signal_recieved, handler, net, display, elided, imgRGBA,
                   numDetections, sigints>>


\* ---------------------------------------------------- main(): processing loop
LoopCondWaitingForFrame == ~signal_recieved \/ imgRGBA = "NULL"

LoopCondNeverFalse == TRUE

\* line 146: the loop condition
LoopCond == ~signal_recieved

\* line 146: while( !signal_recieved ); a run starts at most MaxIter iterations
While ==
    /\ pc = "while"
    /\ IF LoopCond
       THEN /\ NumCaptures < MaxIter
            /\ pc' = "capture"
       ELSE pc' = "shutdown"
    /\ UNCHANGED <<signal_recieved, handler, pipeline, net, display, elided,
                   imgRGBA, numDetections, sigints, trace>>

AfterCaptureCancellable(ok) == IF signal_recieved THEN "shutdown" ELSE "detect"

AfterCaptureFatal(ok) == IF ok THEN "detect" ELSE "shutdown"

\* where the iteration goes after CaptureRGBA (lines 151-155): a failure is
\* printed and the iteration goes on to Detect all the same
AfterCapture(ok) == "detect"

\* lines 149-152: imgRGBA = NULL; pipeline->CaptureRGBA(&imgRGBA, 1000)
Capture ==
    /\ pc = "capture"
    /\ \E ok \in BOOLEAN :
         /\ imgRGBA' = IF ok THEN "frame" ELSE "NULL"
         /\ IF ok
            THEN Emit(Ev("CaptureRGBA", 1))
            ELSE EmitAll(<<Ev("CaptureRGBA", 0),
                           Ev("print:failed to capture RGBA image from pipeline", 0)>>)
         /\ pc' = AfterCapture(ok)
    /\ UNCHANGED <<signal_recieved, handler, pipeline, net, display, elided,
                   numDetections, sigints>>

\* the counts net->Detect returns: a failure, nothing found, MaxDet objects
DetectCounts == {-1, 0, MaxDet}

\* lines 155-157: numDetections = net->Detect(imgRGBA, width, height, ...)
Detect ==
    /\ pc = "detect"
    /\ \E count \in DetectCounts :
         /\ numDetections' = count
         /\ EmitAll(<<Ev("pipeline->Get*", 0), Ev("net->Detect", count)>>)
    /\ pc' = "report"
    /\ UNCHANGED <<signal_recieved, handler, pipeline, net, display, elided,
                   imgRGBA, sigints>>

\* lines 163-167: the two lines printed for each detection n
RECURSIVE DetectionLines(_, _)
DetectionLines(n, count) ==
    IF n >= count
    THEN << >>
    ELSE <<Ev("net->GetClassDesc", n), Ev("print:detected obj", n),
           Ev("print:bounding box", n)>> \o DetectionLines(n + 1, count)

\* line 171: if( display != NULL ), which a build that dropped the test
\* takes to be true
DisplayTest == display # "null" \/ elided

AfterReportSkippingEmpty ==
    IF DisplayTest /\ numDetections # 0 THEN "render" ELSE "while"

AfterReportSkippingFailed ==
    IF DisplayTest /\ numDetections >= 0 THEN "render" ELSE "while"

\* where the iteration goes after the report, by the test of line 171
AfterReport == IF DisplayTest THEN "render" ELSE "while"

\* lines 159-171: only numDetections > 0 prints anything
Report ==
    /\ pc = "report"
    /\ IF numDetections > 0
       THEN EmitAll(<<Ev("print:objects detected", numDetections)>>
                    \o DetectionLines(0, numDetections))
       ELSE UNCHANGED trace
    /\ pc' = AfterReport
    /\ UNCHANGED <<signal_recieved, handler, pipeline, net, display, elided,
                   imgRGBA, numDetections, sigints>>

\* line 174: display->RenderOnce(imgRGBA, width, height)
RenderOnce ==
    /\ pc = "render"
    /\ IF display = "created"
       THEN /\ EmitAll(<<Ev("pipeline->Get*", 0), Ev("display->RenderOnce", 1)>>)
            /\ pc' = "set_title"
       ELSE /\ EmitAll(<<Ev("pipeline->Get*", 0), Ev("NULL->RenderOnce", 0)>>)
            /\ \E outcome \in {"fault", "return"} :
                 pc' = IF outcome = "fault" THEN "crashed" ELSE "set_title"
    /\ UNCHANGED <<signal_recieved, handler, pipeline, net, display, elided,
                   imgRGBA, numDetections, sigints>>

\* lines 177-179: the status bar
SetTitle ==
    /\ pc = "set_title"
    /\ IF display = "created"
       THEN /\ EmitAll(<<Ev("net->Get*", 0), Ev("display->SetTitle", 1)>>)
            /\ pc' = "is_closed"
       ELSE /\ EmitAll(<<Ev("net->Get*", 0), Ev("NULL->SetTitle", 0)>>)
            /\ \E outcome \in {"fault", "return"} :
                 pc' = IF outcome = "fault" THEN "crashed" ELSE "is_closed"
    /\ UNCHANGED <<signal_recieved, handler, pipeline, net, display, elided,
                   imgRGBA, numDetections, sigints>>

UserQuitIgnored(closed) == FALSE

\* line 182: the condition under which line 183 runs
UserQuit(closed) == closed

FlagAssignedFromIsClosed(closed) == closed

\* lines 182-183: the flag after the test; line 183 only ever stores true
FlagAfterIsClosed(closed) == IF UserQuit(closed) THEN TRUE ELSE signal_recieved

\* lines 182-183: if( display->IsClosed() ) signal_recieved = true
IsClosed ==
    /\ pc = "is_closed"
    /\ IF display = "created"
       THEN \E closed \in BOOLEAN :
              /\ Emit(Ev("display->IsClosed", B(closed)))
              /\ signal_recieved' = FlagAfterIsClosed(closed)
              /\ pc' = "while"
       ELSE \E outcome \in {"fault", "true", "false"} :
              /\ Emit(Ev("NULL->IsClosed", B(outcome = "true")))
              /\ signal_recieved' = FlagAfterIsClosed(outcome = "true")
              /\ pc' = IF outcome = "fault" THEN "crashed" ELSE "while"
    /\ UNCHANGED <<handler, pipeline, net, display, elided, imgRGBA,
                   numDetections, sigints>>

\* ------------------------------------------------------------ main(): teardown
\* lines 194-196: SAFE_DELETE(pipeline)
DeletePipeline ==
    /\ pc = "shutdown"
    /\ pipeline' = "deleted"
    /\ EmitAll(<<Ev("print:shutting down...", 0), Ev("delete pipeline", 0)>>)
    /\ pc' = "delete_display"
    /\ UNCHANGED <<signal_recieved, handler, net, display, elided, imgRGBA,
                   numDetections, sigints>>

\* line 197: SAFE_DELETE(display); deleting a null pointer does nothing
DeleteDisplay ==
    /\ pc = "delete_display"
    /\ IF display = "created"
       THEN /\ display' = "deleted"
            /\ Emit(Ev("delete display", 0))
       ELSE UNCHANGED <<display, trace>>
    /\ pc' = "delete_net"
    /\ UNCHANGED <<signal_recieved, handler, pipeline, net, elided, imgRGBA,
                   numDetections, sigints>>

\* lines 198-201: SAFE_DELETE(net); return 0
DeleteNet ==
    /\ pc = "delete_net"
    /\ net' = "deleted"
    /\ EmitAll(<<Ev("delete net", 0), Ev("print:shutdown complete.", 0)>>)
    /\ pc' = "done"
    /\ UNCHANGED <<signal_recieved, handler, pipeline, display, elided,
                   imgRGBA, numDetections, sigints>>

\* ------------------------------------------------------------ specification
\* the steps of main()
Main ==
    \/ ParseCommandLine
    \/ AttachSignalHandler
    \/ CreatePipeline
    \/ CreateNet
    \/ CreateDisplay
    \/ SetViewport
    \/ OpenPipeline
    \/ While
    \/ Capture
    \/ Detect
    \/ Report
    \/ RenderOnce
    \/ SetTitle
    \/ IsClosed
    \/ DeletePipeline
    \/ DeleteDisplay
    \/ DeleteNet

Next ==
    \/ ParseCommandLine
    \/ AttachSignalHandler
    \/ CreatePipeline
    \/ CreateNet
    \/ CreateDisplay
    \/ SetViewport
    \/ OpenPipeline
    \/ While
    \/ Capture
    \/ Detect
    \/ Report
    \/ RenderOnce
    \/ SetTitle
    \/ IsClosed
    \/ DeletePipeline
    \/ DeleteDisplay
    \/ DeleteNet
    \/ Interrupt
    \/ Kill

Spec == Init /\ [][Next]_vars

\* main() is sequential code whose collaborator calls all return (CaptureRGBA
\* within its 1000 ms timeout): a step of main() that can be taken is taken
FairSpec == Init /\ [][Next]_vars /\ WF_vars(Main)


\* ------------------------------------------------------- reading the trace
Events == { trace[i] : i \in 1..Len(trace) }

Captures == Names({"CaptureRGBA"})

DisplayCalls == {"display->SetViewport", "display->RenderOnce",
                 "display->SetTitle", "display->IsClosed"}

NullDisplayCalls == {"NULL->SetViewport", "NULL->RenderOnce",
                     "NULL->SetTitle", "NULL->IsClosed"}

RenderCalls == {"display->RenderOnce", "display->SetTitle",
                "NULL->RenderOnce", "NULL->SetTitle"}

FailureDiagnostics == {"print:can't catch SIGINT",
                       "print:failed to initialize pipeline device",
                       "print:failed to load detectNet model",
                       "print:failed to create openGL display",
                       "print:failed to open pipeline for streaming",
                       "print:failed to capture RGBA image from pipeline"}

\* event j belongs to the iteration that event i belongs to, i before j
SameIteration(i, j) ==
    /\ i < j
    /\ \A k \in (i + 1)..j : trace[k][1] # "CaptureRGBA"

\* the first event after i that main() produced, 0 when there is none yet
NextOfMain(i) ==
    LET later == { j \in (i + 1)..Len(trace) : trace[j][1] # "print:received SIGINT" }
    IN  IF later = {} THEN 0 ELSE CHOOSE j \in later : \A k \in later : j <= k

\* the states of the Orchestrator
Streaming == pc \in {"while", "capture", "detect", "report", "render",
                     "set_title", "is_closed"}

ShuttingDown == pc \in {"shutdown", "delete_display", "delete_net"}

Terminated == pc = "done"

\* the events at which the cancellation flag becomes true
FlagSets == { i \in 1..Len(trace) :
                trace[i] \in {Ev("print:received SIGINT", 0),
                              Ev("display->IsClosed", 1),
                              Ev("NULL->IsClosed", 1)} }

\* the event at which the flag first became true, 0 while it never has
FirstFlagSet ==
    IF FlagSets = {} THEN 0
    ELSE CHOOSE i \in FlagSets : \A k \in FlagSets : i <= k

CapturesAfterFlag ==
    LET f == FirstFlagSet
    IN  IF f = 0 THEN {} ELSE { c \in Captures : f < c }

DetectsAfterFlag ==
    LET after == CapturesAfterFlag
    IN  { d \in Names({"net->Detect"}) : \E c \in after : c < d }

\* the collaborators released so far, in order
Releases == SelectSeq(trace, LAMBDA e : e[1] \in {"delete pipeline",
                                                  "delete display",
                                                  "delete net"})

\* ------------------------------------------------------------------ claims
\* C1: in an iteration whose CaptureRGBA failed, the failure is printed and
\* neither Detect nor RenderOnce/SetTitle is called in that iteration.
C1_FailedAcquireSkipsDetectAndRender ==
    \A c \in Captures :
        trace[c][2] = 0 =>
            /\ trace[c + 1][1] = "print:failed to capture RGBA image from pipeline"
            /\ \A j \in (c + 1)..Len(trace) :
                   SameIteration(c, j) =>
                       trace[j][1] \notin RenderCalls \cup {"net->Detect"}

\* C2: a run that left the loop and finished released the display, then the
\* network, then the pipeline.
C2_ReleaseOrderDisplayNetPipeline ==
    Terminated =>
        Releases = IF Ev("glDisplay::Create", 1) \in Events
                   THEN <<Ev("delete display", 0), Ev("delete net", 0),
                          Ev("delete pipeline", 0)>>
                   ELSE <<Ev("delete net", 0), Ev("delete pipeline", 0)>>

\* C3: when glDisplay::Create returned null, the failure is printed and no
\* display operation is ever invoked on the absent display.
C3_NoCallOnAbsentDisplay ==
    Ev("glDisplay::Create", 0) \in Events =>
        /\ Ev("print:failed to create openGL display", 0) \in Events
        /\ Names(NullDisplayCalls \cup DisplayCalls) = {}

\* C4 as stated: once the flag has been set, no CaptureRGBA is issued.
C4_NoAcquireAfterFlag == CapturesAfterFlag = {}

\* C4 as amended: once the flag has been set, at most one CaptureRGBA is
\* issued (that of the iteration whose loop condition had already been
\* evaluated), so at most that one iteration runs before the loop exits.
C4_AtMostOneAcquireAfterFlag ==
    /\ Cardinality(CapturesAfterFlag) <= 1
    /\ Cardinality(DetectsAfterFlag) <= 1
    /\ (signal_recieved /\ pc = "capture" => CapturesAfterFlag = {})

C4_Witness == Cardinality(CapturesAfterFlag) = 1 /\ ShuttingDown

\* C5: in an iteration whose Detect returned a negative count, the next thing
\* main() does is print a failure diagnostic, and RenderOnce/SetTitle are
\* not called in that iteration.
C5_FailedDetectReportedAndNotRendered ==
    \A d \in Names({"net->Detect"}) :
        trace[d][2] < 0 =>
            /\ NextOfMain(d) # 0 => trace[NextOfMain(d)][1] \in FailureDiagnostics
            /\ \A j \in (d + 1)..Len(trace) :
                   SameIteration(d, j) => trace[j][1] \notin RenderCalls

\* C6: CaptureRGBA and Detect are issued only after gstPipeline::Create,
\* detectNet::Create and pipeline->Open all succeeded; when one of them
\* failed the process has exited, having issued neither.
C6_StreamingOnlyAfterStartup ==
    /\ \A i \in Names({"CaptureRGBA", "net->Detect"}) :
           \A need \in {Ev("gstPipeline::Create", 1), Ev("detectNet::Create", 1),
                        Ev("pipeline->Open", 1)} :
               \E k \in 1..(i - 1) : trace[k] = need
    /\ (\E failed \in {Ev("gstPipeline::Create", 0), Ev("detectNet::Create", 0),
                       Ev("pipeline->Open", 0)} : failed \in Events)
           => /\ pc = "exit"
              /\ Names({"CaptureRGBA", "net->Detect"}) = {}
    /\ Streaming => pipeline = "open" /\ net = "created"

C6_Witness == Streaming /\ Names({"net->Detect"}) # {}

C8_OnlyHandlerWritesFlag ==
    [][signal_recieved' # signal_recieved => sigints' # sigints]_vars

\* C9: the handler's step changes the flag and nothing else; in particular
\* it prints nothing.
C9_HandlerOnlyWritesFlag ==
    [][(handler = "sig_handler" /\ sigints' # sigints) =>
           UNCHANGED <<pc, handler, pipeline, net, display, elided, imgRGBA,
                       numDetections, trace>>]_vars

\* C10: no step that takes the result of CaptureRGBA or Detect leaves
\* Streaming, the loop condition starts another iteration while the flag is
\* clear, and Streaming is left for ShuttingDown only with the flag set.
C10_TransientFailuresNeverFatal ==
    [][/\ (pc \in {"capture", "detect", "report"} /\ pc' \notin {pc, "killed"})
              => Streaming'
       /\ (pc = "while" /\ ~signal_recieved /\ pc' \notin {pc, "killed"})
              => pc' = "capture"
       /\ (Streaming /\ ShuttingDown') => signal_recieved]_vars

C10_Witness ==
    /\ pc = "detect"
    /\ Cardinality(Captures) >= 2
    /\ \A c \in Captures : c < Len(trace) - 1 => trace[c][2] = 0
    /\ \A d \in Names({"net->Detect"}) : trace[d][2] < 0


\* ------------------------------------------------- iterations in the trace
DisplayCreated == Ev("glDisplay::Create", 1) \in Events

\* the iteration begun by the CaptureRGBA at c has run to its end
Complete(c) ==
    \/ \E c2 \in Captures : c < c2
    \/ pc = "while" \/ ShuttingDown \/ Terminated

\* the position of the CaptureRGBA that follows the one at c, or of the end
\* of the trace
IterationEnd(c) ==
    LET later == { c2 \in Captures : c < c2 }
    IN  IF later = {} THEN Len(trace) + 1
        ELSE CHOOSE c2 \in later : \A k \in later : c2 <= k

\* the events of the iteration begun by the CaptureRGBA at c, c included
Iteration(c) ==
    { j \in c..(IterationEnd(c) - 1) :
        trace[j][1] \notin {"print:shutting down...", "delete pipeline",
                             "delete display", "delete net",
                             "print:shutdown complete."} }

\* the event named name in the iteration begun at c, 0 when there is none
InIteration(c, name) ==
    LET it == Iteration(c)
        at == { j \in it : trace[j][1] = name }
    IN  IF at = {} THEN 0 ELSE CHOOSE j \in at : \A k \in at : j <= k

\* C11: with a display present, every iteration that ran to its end polled
\* display->IsClosed(), whatever CaptureRGBA and Detect returned.
C11_IsClosedPolledEveryIteration ==
    DisplayCreated =>
        \A c \in Captures : Complete(c) => InIteration(c, "display->IsClosed") # 0

C11_Witness ==
    /\ DisplayCreated
    /\ pc = "while"
    /\ \E c \in Captures :
           /\ trace[c][2] = 0
           /\ trace[InIteration(c, "net->Detect")][2] < 0
           /\ InIteration(c, "display->IsClosed") # 0

\* C12: an iteration that has called CaptureRGBA runs all its steps even when
\* the flag is set meanwhile (Detect, and with a display RenderOnce, SetTitle,
\* IsClosed, in this order): the loop is never left for ShuttingDown, nor a new
\* iteration begun, from the middle of an iteration.
C12_CancellationOnlyAtIterationBoundary ==
    \A c \in Captures :
        Complete(c) =>
            LET d == InIteration(c, "net->Detect")
                r == InIteration(c, "display->RenderOnce")
                t == InIteration(c, "display->SetTitle")
                q == InIteration(c, "display->IsClosed")
            IN  /\ d # 0
                /\ DisplayCreated => (d < r /\ r < t /\ t < q)

C12_Witness ==
    /\ ShuttingDown
    /\ \E c \in Captures :
           LET f == InIteration(c, "print:received SIGINT")
           IN  /\ f # 0
               /\ f < InIteration(c, "net->Detect")
               /\ InIteration(c, "display->IsClosed") # 0


\* event e occurs in the trace before position i
Before(e, i) == \E k \in 1..(i - 1) : trace[k] = e

\* C13 as stated: gstPipeline::Create and pipeline->Open have both succeeded
\* before detectNet::Create is called, and detectNet::Create has succeeded
\* before glDisplay::Create is called.
C13_SourceOpenBeforeEngineCreate ==
    /\ \A i \in Names({"detectNet::Create"}) :
           /\ Before(Ev("gstPipeline::Create", 1), i)
           /\ Before(Ev("pipeline->Open", 1), i)
    /\ \A i \in Names({"glDisplay::Create"}) :
           Before(Ev("detectNet::Create", 1), i)

\* C13 as amended: the three are created in the order pipeline, network,
\* display, each after the one before it succeeded, and pipeline->Open is
\* called after all three creations and the viewport call.
C13_CreateOrderThenOpen ==
    /\ \A i \in Names({"detectNet::Create"}) :
           Before(Ev("gstPipeline::Create", 1), i)
    /\ \A i \in Names({"glDisplay::Create"}) :
           Before(Ev("detectNet::Create", 1), i)
    /\ \A i \in Names({"pipeline->Open"}) :
           /\ \E k \in Names({"glDisplay::Create"}) : k < i
           /\ \E k \in Names({"display->SetViewport", "NULL->SetViewport"}) : k < i
           /\ Before(Ev("gstPipeline::Create", 1), i)
           /\ Before(Ev("detectNet::Create", 1), i)

C13_Witness == pc = "while" /\ DisplayCreated /\ Ev("pipeline->Open", 1) \in Events


\* C14: every collaborator call returning (a call that faults does not),
\* once cancellation has been requested during Streaming (the handler or a
\* closed display has set the flag) the run reaches Terminated, unless a
\* SIGINT with no handler installed ends the process first; CaptureRGBA
\* failing every time does not prevent it.
C14_CancellationLeadsToTerminated ==
    (Streaming /\ signal_recieved) ~> (Terminated \/ pc \in {"killed", "crashed"})

C14_Witness ==
    /\ Terminated
    /\ sigints > 0
    /\ Cardinality(Captures) >= 2
    /\ \A c \in Captures : trace[c][2] = 0


\* the lines printed for single detections (the "n objects detected" header
\* is not one of them)
DetectionLogLines == {"print:detected obj", "print:bounding box"}

\* the iteration begun at c has printed all it prints for its detections
Reported(c) ==
    \/ \E c2 \in Captures : c < c2
    \/ pc \in {"render", "set_title", "is_closed"}
    \/ ShuttingDown \/ Terminated

\* C15: as many capture diagnostics as failed CaptureRGBA calls; an iteration
\* whose Detect returned n > 0 prints exactly n detection log lines, one per
\* detection; an iteration without a frame prints none.
C15_OneLogLinePerDetection ==
    /\ Cardinality(Names({"print:failed to capture RGBA image from pipeline"}))
           = Cardinality({ c \in Captures : trace[c][2] = 0 })
    /\ \A c \in Captures :
           LET d == InIteration(c, "net->Detect")
               lines == { j \in Iteration(c) : trace[j][1] \in DetectionLogLines }
           IN  /\ (d # 0 /\ Reported(c) /\ trace[d][2] > 0)
                      => Cardinality(lines) = trace[d][2]
               /\ trace[c][2] = 0 => lines = {}


\* the calls main() makes on its collaborators inside the loop
LoopCalls == {"CaptureRGBA", "pipeline->Get*", "net->Detect",
              "net->GetClassDesc", "net->Get*"}
             \cup DisplayCalls \cup NullDisplayCalls

\* the names of the calls in `calls' made after Detect in the iteration
\* begun at c, in order
CallsAfterDetect(c, calls) ==
    LET d == InIteration(c, "net->Detect")
        made == SelectSeq(SubSeq(trace, d + 1, IterationEnd(c) - 1),
                          LAMBDA e : e[1] \in calls)
    IN  [ i \in 1..Len(made) |-> made[i][1] ]

\* the iterations that ran to their end and whose Detect returned count
IterationsWith(count) ==
    { c \in Captures :
        LET d == InIteration(c, "net->Detect")
        IN  Complete(c) /\ d # 0 /\ trace[d][2] = count }

\* C16 as stated: an iteration whose Detect returned 0 prints no detection
\* log line, and the calls made after Detect are the same in it as in an
\* iteration of the same run whose Detect returned MaxDet (3).
C16_SameCallsForZeroAndThree ==
    \A c0 \in IterationsWith(0) :
        /\ \A j \in Iteration(c0) : trace[j][1] \notin DetectionLogLines
        /\ \A c3 \in IterationsWith(MaxDet) :
               CallsAfterDetect(c0, LoopCalls) = CallsAfterDetect(c3, LoopCalls)

\* C16 as amended: the same, for the calls other than the net->GetClassDesc
\* look-ups of the detection log lines; and the loop condition decides
\* between another iteration and teardown by the flag alone.
C16_SameControlFlowForZeroAndThree ==
    /\ [](LET zero == IterationsWith(0)
              three == IterationsWith(MaxDet)
          IN  \A c0 \in zero :
                  /\ \A j \in Iteration(c0) : trace[j][1] \notin DetectionLogLines
                  /\ \A c3 \in three :
                         CallsAfterDetect(c0, LoopCalls \ {"net->GetClassDesc"})
                             = CallsAfterDetect(c3, LoopCalls \ {"net->GetClassDesc"}))
    /\ [][(pc = "while" /\ pc' \in {"capture", "shutdown"})
              => ((pc' = "shutdown") <=> signal_recieved)]_vars

C16_Witness ==
    /\ DisplayCreated
    /\ IterationsWith(0) # {}
    /\ IterationsWith(MaxDet) # {}


\* C17: once the flag is true it stays true: no step of the handler or of
\* main() resets it.
C17_FlagMonotonic == [][signal_recieved => signal_recieved']_vars

\* the flag was set by the handler and a later IsClosed() returned false
C17_Witness ==
    /\ signal_recieved
    /\ \E f \in Names({"print:received SIGINT"}) :
           \E j \in Names({"display->IsClosed"}) : f < j /\ trace[j][2] = 0


\* C18: when main() has returned (after a failed startup step or after the
\* teardown), every collaborator whose creation succeeded has been released
\* exactly once.
C18_CreatedCollaboratorsReleasedOnce ==
    pc \in {"exit", "done"} =>
        /\ Ev("gstPipeline::Create", 1) \in Events
               => Cardinality(Names({"delete pipeline"})) = 1
        /\ Ev("detectNet::Create", 1) \in Events
               => Cardinality(Names({"delete net"})) = 1
        /\ Ev("glDisplay::Create", 1) \in Events
               => Cardinality(Names({"delete display"})) = 1

\* the call at i is made on an object that create has returned (event
\* created) and that has not been released (event released) yet
Alive(i, created, released) ==
    /\ Before(created, i)
    /\ ~Before(released, i)

\* C19: every call on the pipeline, the network or the display is made
\* between its successful creation and its release, none is made on a display
\* that was never created, and CaptureRGBA is called only after Open
\* succeeded.
C19_CallsWithinLifetime ==
    /\ \A i \in Names({"pipeline->Get*", "pipeline->Open", "CaptureRGBA"}) :
           Alive(i, Ev("gstPipeline::Create", 1), Ev("delete pipeline", 0))
    /\ \A i \in Names({"CaptureRGBA"}) : Before(Ev("pipeline->Open", 1), i)
    /\ \A i \in Names({"net->Detect", "net->GetClassDesc", "net->Get*"}) :
           Alive(i, Ev("detectNet::Create", 1), Ev("delete net", 0))
    /\ \A i \in Names(DisplayCalls) :
           Alive(i, Ev("glDisplay::Create", 1), Ev("delete display", 0))
    /\ Names(NullDisplayCalls) = {}

=============================================================================
